---- MODULE Spec2Model ----
(***************************************************************************)
(* State-machine model of the nautilink Anchor program                     *)
(* (src/web3/programs/nautilink/src/lib.rs).                               *)
(*                                                                         *)
(* The ledger is a map from account addresses to CrateRecord values.       *)
(* Every instruction handler is one action.  A handler that returns Err,   *)
(* panics, or whose account does not serialize back into its allocated     *)
(* space aborts the whole transaction, so it leaves the ledger unchanged.  *)
(* The variable last records the most recent call, its arguments and its   *)
(* result, and prev the ledger that call was made on, so that properties   *)
(* can speak about what a call returned and what it changed.               *)
(***************************************************************************)
EXTENDS Integers, Sequences, FiniteSets, TLC

VARIABLES store, prev, last, ops, linked

vars == <<store, prev, last, ops, linked>>

-----------------------------------------------------------------------------
(* Bounds of the model *)

\* Number of instructions in a behaviour; also the number of account
\* addresses, since an instruction creates at most one account.
MaxOps == 3

-----------------------------------------------------------------------------
(* Program constants *)

\* A u32 does not fit in the integers of the model checker, so it is kept
\* exactly as two 16-bit limbs <<high, low>>, value high * 2^16 + low.  A
\* mathematical sum is a pair in the same form whose high part is unbounded.
Limb == 2^16

U32(high, low) == <<high, low>>

U32_MAX == U32(Limb - 1, Limb - 1)

\* Exact addition of two numbers in limb form.
WideAdd(a, b) == <<a[1] + b[1] + ((a[2] + b[2]) \div Limb), (a[2] + b[2]) % Limb>>

\* The number is at most U32_MAX.
FitsU32(x) == x[1] < Limb

\* The number modulo 2^32.
WrapU32(x) == <<x[1] % Limb, x[2]>>

MAX_PARENTS == 10

MAX_CHILDREN == 10

\* The size of a Pubkey in the account layout.
PUBKEY_BYTES == 32

MAX_SIZE ==
    32 + (4 + 64) + 4 + 8 + (4 + 64) + (4 + 64)
       + 4 + (MAX_PARENTS * 32) + 4 + (MAX_CHILDREN * 32)
       + 4 + (MAX_PARENTS * 4) + 4 + (MAX_CHILDREN * 4) + 1

OperationType == {"Created", "Transferred", "Mixed", "Split"}

ErrorCode ==
    {"WeightMismatchOnTransfer", "MixRequiresMultipleParents",
     "SplitRequiresMultipleChildren", "TooManyParents", "TooManyChildren",
     "ChildKeyWeightMismatch", "SplitWeightMismatch", "WeightOverflow",
     "UnauthorizedUpdate"}

-----------------------------------------------------------------------------
(* Input domains *)

\* Account addresses (Pubkeys of record accounts), numbered in the order in
\* which the accounts are allocated.
Addrs == 1..MaxOps

\* Pubkeys that callers put into key lists and pass as remaining accounts.
Keys == {1, 2}

\* Transaction signers.
Signers == {"alice", "bob"}

\* The caller-supplied descriptive arguments crate_id, timestamp, hash and
\* ipfs_cid; each signer submits its own.
MetaOf(signer) ==
    IF signer = "alice"
    THEN [crate_id |-> "c1", timestamp |-> 1, hash |-> "h1", ipfs_cid |-> "q1"]
    ELSE [crate_id |-> "c22", timestamp |-> 2, hash |-> "h22", ipfs_cid |-> "q22"]

\* Weights supplied by callers: two small ones and the largest u32.
WeightVals == {U32(0, 1), U32(0, 2), U32_MAX}

\* The weight argument of split_crate: one that occurs in every list of
\* WeightLists and one that is missing from some.
SplitWeights == {U32(0, 1), U32(0, 2)}

\* A key list one longer than MAX_PARENTS / MAX_CHILDREN.
LongKeys == [i \in 1..(MAX_CHILDREN + 1) |-> IF i % 2 = 1 THEN 1 ELSE 2]

\* parent_keys / child_keys arguments: too short, a repeated key, two
\* distinct keys, too long.
KeyLists == {<<1>>, <<1, 1>>, <<1, 2>>, LongKeys}

\* remaining_accounts of mix_crates: none, one, one account twice, two
\* accounts in either order.
AccountLists == {<<>>, <<1>>, <<1, 1>>, <<1, 2>>, <<2, 1>>}

\* child_weights arguments: one weight, sums 2 and 3, and a sum of 2^32 + 1.
WeightLists ==
    {<<U32(0, 1)>>, <<U32(0, 1), U32(0, 1)>>, <<U32(0, 1), U32(0, 2)>>,
     <<U32_MAX, U32(0, 2)>>}

-----------------------------------------------------------------------------
(* Helpers *)

NoRecord == [exists |-> FALSE]

\* The account at Pubkey a holds an initialized CrateRecord.
Exists(a) == a \in Addrs /\ store[a] # NoRecord

RECURSIVE SumSeq(_)
\* The mathematical (unbounded) sum of a sequence of u32 values.
SumSeq(s) == IF s = <<>> THEN U32(0, 0) ELSE WideAdd(s[1], SumSeq(Tail(s)))

Contains(s, k) == \E i \in 1..Len(s) : s[i] = k

Count(s, k) == Cardinality({i \in 1..Len(s) : s[i] = k})

\* Borsh size of a CrateRecord, field by field as laid out in MAX_SIZE.
SerializedSize(r) ==
    32 + (4 + Len(r.crate_id)) + 4 + 8 + (4 + Len(r.hash)) + (4 + Len(r.ipfs_cid))
       + 4 + (Len(r.parent_crates) * PUBKEY_BYTES)
       + 4 + (Len(r.child_crates) * PUBKEY_BYTES)
       + 4 + (Len(r.parent_weights) * 4)
       + 4 + (Len(r.split_distribution) * 4) + 1

\* The account is allocated with space = 8 + MAX_SIZE; 8 bytes hold the
\* discriminator.
Fits(r) == SerializedSize(r) <= MAX_SIZE

\* The fields of a CrateRecord account.
CrateRecord ==
    [exists : {TRUE},
     authority : Signers,
     crate_id : STRING,
     weight : {w \in Nat \X Nat : FitsU32(w) /\ w[2] < Limb},
     timestamp : Int,
     hash : STRING,
     ipfs_cid : STRING,
     parent_crates : Seq(Keys \cup Addrs),
     child_crates : Seq(Keys \cup Addrs),
     parent_weights : Seq(Nat \X Nat),
     split_distribution : Seq(Nat \X Nat),
     operation_type : OperationType]

\* The ledger holds, at every address, no account yet or a CrateRecord.
TypeOK ==
    /\ \A a \in Addrs : store[a] = NoRecord \/ store[a] \in CrateRecord
    /\ \A a \in Addrs : prev[a] = NoRecord \/ prev[a] \in CrateRecord
    /\ ops \in 0..MaxOps

-----------------------------------------------------------------------------
(* Calls and their outcome *)

\* What last holds: the instruction, its signer, the account it writes
\* (target), its arguments, and the result returned to the caller.
Call(op, signer, target, parent, weight, keys, weights, accounts) ==
    [op |-> op, signer |-> signer, target |-> target, parent |-> parent,
     weight |-> weight, keys |-> keys, weights |-> weights,
     accounts |-> accounts, result |-> "Ok"]

NoCall == Call("none", "none", 0, 0, U32(0, 0), <<>>, <<>>, <<>>)

\* Mutation of Fail: the handler had assigned child_crates of its account
\* before it returned Err, and the assignment is kept.
Fail_KeepsWrite(call, err) ==
    /\ store' = [store EXCEPT ![call.target] =
                     IF @ = NoRecord THEN @ ELSE [@ EXCEPT !.child_crates = call.keys]]
    /\ prev' = store
    /\ last' = [call EXCEPT !.result = err]

\* The handler returned Err (or panicked): the transaction is rolled back.
Fail(call, err) ==
    /\ store' = store
    /\ prev' = store
    /\ last' = [call EXCEPT !.result = err]

\* Mutation of Commit: a call that names a parent also appends the new
\* account to the parent's child_crates.
Commit_FanOut(a, rec, call) ==
    /\ store' = IF call.parent \in Addrs /\ call.parent # a
                THEN [store EXCEPT ![a] = rec,
                                   ![call.parent].child_crates = Append(@, a)]
                ELSE [store EXCEPT ![a] = rec]
    /\ prev' = store
    /\ last' = call

\* The handler returned Ok(()): on exit the account is serialized back into
\* its data, which fails when the record has outgrown the allocated space.
Commit(a, rec, call) ==
    IF Fits(rec)
    THEN /\ store' = [store EXCEPT ![a] = rec]
         /\ prev' = store
         /\ last' = call
    ELSE Fail(call, "AccountDidNotSerialize")

\* The address of the account a new record is created in: the `init`
\* constraint requires an account that does not exist yet.
NextAddr == CHOOSE a \in Addrs : ~Exists(a) /\ \A b \in Addrs : b < a => Exists(b)

\* An account is left for `init` to create.
CanInit == \E a \in Addrs : ~Exists(a)

\* Mutation of InitCheck: init_if_needed in place of init.
InitCheck_IfNeeded(a) == TRUE

\* The `init` constraint creates the account through the System Program,
\* which refuses an address that already holds an account.
InitCheck(a) == ~Exists(a)

\* The addresses a caller passes as crate_record: the next free one, or one
\* that is in use.
InitTargets == {a \in Addrs : Exists(a)} \cup (IF CanInit THEN {NextAddr} ELSE {})

\* The account constraints are evaluated before the handler runs: on an
\* address in use the handler's arguments are never looked at, and one value
\* of each stands for all of them.
ArgsFor(target, S) == IF Exists(target) THEN {CHOOSE x \in S : TRUE} ELSE S

\* A failed transaction leaves the ledger as it was, so whatever can follow
\* it can follow the state it was made in: behaviours are explored up to
\* and including their first failed call.
CanCall == ops < MaxOps /\ last.result = "Ok"

-----------------------------------------------------------------------------
(* create_crate *)

CreateRecord(signer, m, weight) ==
    [exists |-> TRUE,
     crate_id |-> m.crate_id,
     weight |-> weight,
     timestamp |-> m.timestamp,
     hash |-> m.hash,
     ipfs_cid |-> m.ipfs_cid,
     authority |-> signer,
     parent_crates |-> <<>>,
     child_crates |-> <<>>,
     parent_weights |-> <<>>,
     split_distribution |-> <<>>,
     operation_type |-> "Created"]

create_crate ==
    /\ CanCall
    /\ \E signer \in Signers, target \in InitTargets :
       \E weight \in ArgsFor(target, WeightVals) :
        /\ LET call == Call("create_crate", signer, target, 0, weight, <<>>, <<>>, <<>>)
           IN  IF ~InitCheck(target) THEN Fail(call, "AccountAlreadyInUse")
               ELSE Commit(target, CreateRecord(signer, MetaOf(signer), weight), call)
        /\ ops' = ops + 1
        /\ UNCHANGED linked

-----------------------------------------------------------------------------
(* transfer_ownership *)

\* a <= b for u32 values in limb form.
LeqU32(a, b) == a[1] < b[1] \/ (a[1] = b[1] /\ a[2] <= b[2])

\* Mutation of TransferCheck: the declared weight may be below the parent's.
TransferCheck_AtMost(weight, parent) == LeqU32(weight, parent.weight)

\* require!(weight == parent.weight, WeightMismatchOnTransfer)
TransferCheck(weight, parent) == weight = parent.weight

\* Mutation of TransferRecord: the new record does not name its parent.
TransferRecord_NoParent(signer, m, weight, p, parent) ==
    [exists |-> TRUE,
     crate_id |-> m.crate_id,
     weight |-> weight,
     timestamp |-> m.timestamp,
     hash |-> m.hash,
     ipfs_cid |-> m.ipfs_cid,
     authority |-> signer,
     parent_crates |-> <<>>,
     child_crates |-> <<>>,
     parent_weights |-> <<parent.weight>>,
     split_distribution |-> <<>>,
     operation_type |-> "Transferred"]

TransferRecord(signer, m, weight, p, parent) ==
    [exists |-> TRUE,
     crate_id |-> m.crate_id,
     weight |-> weight,
     timestamp |-> m.timestamp,
     hash |-> m.hash,
     ipfs_cid |-> m.ipfs_cid,
     authority |-> signer,
     parent_crates |-> <<p>>,
     child_crates |-> <<>>,
     parent_weights |-> <<parent.weight>>,
     split_distribution |-> <<>>,
     operation_type |-> "Transferred"]

\* Weights a caller may declare: the input weights and those on the ledger.
DeclaredWeights == WeightVals \cup {store[a].weight : a \in {b \in Addrs : Exists(b)}}

transfer_ownership ==
    /\ CanCall
    /\ \E signer \in Signers, target \in InitTargets :
       \E weight \in ArgsFor(target, DeclaredWeights),
          p \in ArgsFor(target, {a \in Addrs : Exists(a)}) :
        /\ LET call == Call("transfer_ownership", signer, target, p, weight,
                            <<>>, <<>>, <<>>)
           IN  IF ~InitCheck(target) THEN Fail(call, "AccountAlreadyInUse")
               ELSE IF TransferCheck(weight, store[p])
               THEN Commit(target,
                           TransferRecord(signer, MetaOf(signer), weight, p, store[p]),
                           call)
               ELSE Fail(call, "WeightMismatchOnTransfer")
        /\ ops' = ops + 1
        /\ UNCHANGED linked

-----------------------------------------------------------------------------
(* mix_crates *)

\* Mutation of CheckedAdd: wrapping_add in place of checked_add.
CheckedAdd_Wrapping(a, b) == [some |-> TRUE, value |-> WrapU32(WideAdd(a, b))]

\* u32::checked_add: None when the sum does not fit in 32 bits.
CheckedAdd(a, b) ==
    IF FitsU32(WideAdd(a, b))
    THEN [some |-> TRUE, value |-> WideAdd(a, b)]
    ELSE [some |-> FALSE, value |-> U32(0, 0)]

RECURSIVE MixLoop(_, _, _)
\* The loop over ctx.remaining_accounts: loads each account as a
\* CrateRecord, adds its weight with overflow checking and records it.
MixLoop(accounts, total_weight, parent_weights) ==
    IF accounts = <<>>
    THEN [err |-> "Ok", total_weight |-> total_weight, parent_weights |-> parent_weights]
    ELSE IF ~Exists(Head(accounts))
    THEN [err |-> "AccountNotInitialized", total_weight |-> U32(0, 0),
          parent_weights |-> <<>>]
    ELSE LET parent == store[Head(accounts)]
             sum == CheckedAdd(total_weight, parent.weight)
         IN  IF ~sum.some
             THEN [err |-> "WeightOverflow", total_weight |-> U32(0, 0),
                   parent_weights |-> <<>>]
             ELSE MixLoop(Tail(accounts), sum.value,
                          Append(parent_weights, parent.weight))

\* Mutation of MixKeysCheck: the lower bound is off by one.
MixKeysCheck_OneParent(parent_keys) ==
    IF ~(Len(parent_keys) >= 1) THEN "MixRequiresMultipleParents"
    ELSE IF ~(Len(parent_keys) <= MAX_PARENTS) THEN "TooManyParents"
    ELSE "Ok"

\* The two require! checks on parent_keys.len(), in source order.
MixKeysCheck(parent_keys) ==
    IF ~(Len(parent_keys) >= 2) THEN "MixRequiresMultipleParents"
    ELSE IF ~(Len(parent_keys) <= MAX_PARENTS) THEN "TooManyParents"
    ELSE "Ok"

\* Mutation of MixRecord: the authority is not taken from the signer.
MixRecord_FixedAuthority(signer, m, parent_keys, total_weight, parent_weights) ==
    [exists |-> TRUE,
     crate_id |-> m.crate_id,
     weight |-> total_weight,
     timestamp |-> m.timestamp,
     hash |-> m.hash,
     ipfs_cid |-> m.ipfs_cid,
     authority |-> "alice",
     parent_crates |-> parent_keys,
     child_crates |-> <<>>,
     parent_weights |-> parent_weights,
     split_distribution |-> <<>>,
     operation_type |-> "Mixed"]

MixRecord(signer, m, parent_keys, total_weight, parent_weights) ==
    [exists |-> TRUE,
     crate_id |-> m.crate_id,
     weight |-> total_weight,
     timestamp |-> m.timestamp,
     hash |-> m.hash,
     ipfs_cid |-> m.ipfs_cid,
     authority |-> signer,
     parent_crates |-> parent_keys,
     child_crates |-> <<>>,
     parent_weights |-> parent_weights,
     split_distribution |-> <<>>,
     operation_type |-> "Mixed"]

mix_crates ==
    /\ CanCall
    /\ \E signer \in Signers, target \in InitTargets :
       \E parent_keys \in ArgsFor(target, KeyLists),
          accounts \in ArgsFor(target, AccountLists) :
        /\ LET call == Call("mix_crates", signer, target, 0, U32(0, 0), parent_keys,
                            <<>>, accounts)
               check == MixKeysCheck(parent_keys)
               loop == MixLoop(accounts, U32(0, 0), <<>>)
           IN  IF ~InitCheck(target) THEN Fail(call, "AccountAlreadyInUse")
               ELSE IF check # "Ok" THEN Fail(call, check)
               ELSE IF loop.err # "Ok" THEN Fail(call, loop.err)
               ELSE Commit(target,
                           MixRecord(signer, MetaOf(signer), parent_keys,
                                     loop.total_weight, loop.parent_weights),
                           call)
        /\ ops' = ops + 1
        /\ UNCHANGED linked

-----------------------------------------------------------------------------
(* split_crate *)

\* The three require! checks on the argument lengths, in source order.
SplitLenCheck(child_keys, child_weights) ==
    IF ~(Len(child_keys) >= 2) THEN "SplitRequiresMultipleChildren"
    ELSE IF ~(Len(child_keys) <= MAX_CHILDREN) THEN "TooManyChildren"
    ELSE IF ~(Len(child_keys) = Len(child_weights)) THEN "ChildKeyWeightMismatch"
    ELSE "Ok"

\* child_weights.iter().sum() as a u32.  When the sum does not fit, the
\* addition panics in a build with overflow checks and wraps modulo 2^32 in
\* a build without them; which build is deployed is not fixed by the source.
IterSum(child_weights) ==
    IF FitsU32(SumSeq(child_weights))
    THEN {[panic |-> FALSE, value |-> SumSeq(child_weights)]}
    ELSE {[panic |-> TRUE, value |-> U32(0, 0)],
          [panic |-> FALSE, value |-> WrapU32(SumSeq(child_weights))]}

\* require!(total_child_weight == parent.weight, SplitWeightMismatch)
SplitWeightCheck(total_child_weight, parent) == total_child_weight = parent.weight

\* Mutation of SplitRecord: the record takes the parent's weight, not the
\* weight the caller declared for this child.
SplitRecord_ParentWeight(signer, m, weight, p, parent, child_keys, child_weights) ==
    [exists |-> TRUE,
     crate_id |-> m.crate_id,
     weight |-> parent.weight,
     timestamp |-> m.timestamp,
     hash |-> m.hash,
     ipfs_cid |-> m.ipfs_cid,
     authority |-> signer,
     parent_crates |-> <<p>>,
     child_crates |-> child_keys,
     parent_weights |-> <<parent.weight>>,
     split_distribution |-> child_weights,
     operation_type |-> "Split"]

SplitRecord(signer, m, weight, p, parent, child_keys, child_weights) ==
    [exists |-> TRUE,
     crate_id |-> m.crate_id,
     weight |-> weight,
     timestamp |-> m.timestamp,
     hash |-> m.hash,
     ipfs_cid |-> m.ipfs_cid,
     authority |-> signer,
     parent_crates |-> <<p>>,
     child_crates |-> child_keys,
     parent_weights |-> <<parent.weight>>,
     split_distribution |-> child_weights,
     operation_type |-> "Split"]

split_crate ==
    /\ CanCall
    /\ \E signer \in Signers, target \in InitTargets :
       \E weight \in ArgsFor(target, SplitWeights),
          p \in ArgsFor(target, {a \in Addrs : Exists(a)}),
          child_keys \in ArgsFor(target, KeyLists),
          child_weights \in ArgsFor(target, WeightLists) :
        /\ LET call == Call("split_crate", signer, target, p, weight, child_keys,
                            child_weights, <<>>)
               check == SplitLenCheck(child_keys, child_weights)
           IN  IF ~InitCheck(target) THEN Fail(call, "AccountAlreadyInUse")
               ELSE IF check # "Ok" THEN Fail(call, check)
               ELSE \E total \in IterSum(child_weights) :
                       IF total.panic THEN Fail(call, "ProgramPanicked")
                       ELSE IF ~SplitWeightCheck(total.value, store[p])
                       THEN Fail(call, "SplitWeightMismatch")
                       ELSE Commit(target,
                                   SplitRecord(signer, MetaOf(signer), weight, p,
                                               store[p], child_keys, child_weights),
                                   call)
        /\ ops' = ops + 1
        /\ UNCHANGED linked

-----------------------------------------------------------------------------
(* update_parent_children *)

\* require!(ctx.accounts.authority.key() == parent.authority, UnauthorizedUpdate)
UpdateParentAuth(signer, parent) == signer = parent.authority

\* Mutation of SetChildren: the keys are added to the list, not put in its
\* place.
SetChildren_Additive(parent, child_keys) ==
    [parent EXCEPT !.child_crates = @ \o child_keys]

\* parent.child_crates = child_keys
SetChildren(parent, child_keys) == [parent EXCEPT !.child_crates = child_keys]

update_parent_children ==
    /\ CanCall
    /\ \E signer \in Signers, p \in Addrs, child_keys \in KeyLists :
        /\ Exists(p)
        /\ LET call == Call("update_parent_children", signer, p, 0, U32(0, 0), child_keys,
                            <<>>, <<>>)
           IN  IF UpdateParentAuth(signer, store[p])
               THEN Commit(p, SetChildren(store[p], child_keys), call)
               ELSE Fail(call, "UnauthorizedUpdate")
        /\ ops' = ops + 1
        /\ UNCHANGED linked

-----------------------------------------------------------------------------
(* update_child_parent *)

\* Mutation of UpdateChildAuth: the authority check is missing.
UpdateChildAuth_Missing(signer, child) == TRUE

\* require!(ctx.accounts.authority.key() == child.authority, UnauthorizedUpdate)
UpdateChildAuth(signer, child) == signer = child.authority

\* Mutation of PushParent: the key is pushed without the contains test.
PushParent_Always(child, parent_key) ==
    [child EXCEPT !.parent_crates = Append(@, parent_key)]

\* if !child.parent_crates.contains(&parent_key) { child.parent_crates.push(parent_key) }
PushParent(child, parent_key) ==
    IF ~Contains(child.parent_crates, parent_key)
    THEN [child EXCEPT !.parent_crates = Append(@, parent_key)]
    ELSE child

\* History of the linking calls, kept for the properties only: for every
\* (child, parent_key) pair that a successful update_child_parent has been
\* made on, an entry <<child, parent_key, n0, calls>> with the number n0 of
\* occurrences of parent_key in child.parent_crates before the first such
\* call and the number of such calls so far.
Linked(c, k) == \E e \in linked : e[1] = c /\ e[2] = k

RecordLink(c, k, n0) ==
    IF Linked(c, k)
    THEN {IF e[1] = c /\ e[2] = k THEN <<c, k, e[3], e[4] + 1>> ELSE e : e \in linked}
    ELSE linked \cup {<<c, k, n0, 1>>}

update_child_parent ==
    /\ CanCall
    /\ \E signer \in Signers, c \in Addrs, parent_key \in Keys :
        /\ Exists(c)
        /\ LET call == Call("update_child_parent", signer, c, 0, U32(0, 0), <<parent_key>>,
                            <<>>, <<>>)
           IN  IF UpdateChildAuth(signer, store[c])
               THEN /\ Commit(c, PushParent(store[c], parent_key), call)
                    /\ linked' =
                         IF last'.result = "Ok"
                         THEN RecordLink(c, parent_key,
                                         Count(store[c].parent_crates, parent_key))
                         ELSE linked
               ELSE /\ Fail(call, "UnauthorizedUpdate")
                    /\ UNCHANGED linked
        /\ ops' = ops + 1

-----------------------------------------------------------------------------
(* The state machine *)

Init ==
    /\ store = [a \in Addrs |-> NoRecord]
    /\ prev = [a \in Addrs |-> NoRecord]
    /\ last = NoCall
    /\ ops = 0
    /\ linked = {}

Next ==
    \/ create_crate
    \/ transfer_ownership
    \/ mix_crates
    \/ split_crate
    \/ update_parent_children
    \/ update_child_parent

Spec == Init /\ [][Next]_vars

-----------------------------------------------------------------------------
(* Vocabulary of the properties *)

LastOk == last.result = "Ok"

\* The record the last call wrote (or would have written), after and before.
New == store[last.target]

Old == prev[last.target]

\* The last call, one that creates a record, was made on an address that
\* held no account: its `init` constraint passed and its handler ran.
FreshTarget == Old = NoRecord

\* Every key of the list named a record when the last call was made.
WereRecords(keys) ==
    \A i \in 1..Len(keys) : keys[i] \in Addrs /\ prev[keys[i]] # NoRecord

\* The weights, in order, of the records that the keys named then.
WeightsThen(keys) == [i \in 1..Len(keys) |-> prev[keys[i]].weight]

LinkOps == {"update_parent_children", "update_child_parent"}

Max(a, b) == IF a >= b THEN a ELSE b

-----------------------------------------------------------------------------
(* C1 *)

\* C1 (as claimed): after a successful mix_crates the new record's weight is
\* the sum of the weights of the records named by its parent_crates, whatever
\* parent_keys and accounts were passed.
C1_MixWeightIsSumOfNamedParents ==
    (last.op = "mix_crates" /\ LastOk /\ WereRecords(New.parent_crates))
        => New.weight = SumSeq(WeightsThen(New.parent_crates))

-----------------------------------------------------------------------------
(* C2 *)

\* C2 (as claimed): in every reachable state every record has as many
\* parent_weights as parent_crates.
C2_ParentListsSameLength ==
    \A a \in Addrs :
        Exists(a) => Len(store[a].parent_crates) = Len(store[a].parent_weights)

-----------------------------------------------------------------------------
(* C3 *)

\* C3 (as claimed): a split_crate call for a new account that passed the three length checks
\* succeeds only if the mathematical sum of child_weights equals the parent's
\* weight, and otherwise (also when that sum exceeds 2^32 - 1) fails with
\* SplitWeightMismatch and writes nothing; so the split_distribution of every
\* Split record sums to the weight of its parent.
C3_SplitOnlyOnExactSum ==
    /\ (/\ last.op = "split_crate"
        /\ FreshTarget
        /\ Len(last.keys) >= 2
        /\ Len(last.keys) <= MAX_CHILDREN
        /\ Len(last.keys) = Len(last.weights)
        /\ SumSeq(last.weights) # prev[last.parent].weight)
           => (last.result = "SplitWeightMismatch" /\ store = prev)
    /\ \A a \in Addrs :
           (Exists(a) /\ store[a].operation_type = "Split")
               => SumSeq(store[a].split_distribution) = store[a].parent_weights[1]

-----------------------------------------------------------------------------
(* C4 *)

\* C4: transfer_ownership for a new account succeeds exactly when the declared weight equals
\* the parent's weight; it then creates a record with that weight, the parent
\* as its only parent, the parent's weight as its only parent weight, no
\* children and the tag Transferred; otherwise it fails with
\* WeightMismatchOnTransfer and the ledger is unchanged.
C4_TransferIffWeightMatches ==
    (last.op = "transfer_ownership" /\ FreshTarget) =>
        IF last.weight = prev[last.parent].weight
        THEN /\ LastOk
             /\ Old = NoRecord
             /\ New # NoRecord
             /\ New.weight = prev[last.parent].weight
             /\ New.parent_crates = <<last.parent>>
             /\ New.parent_weights = <<prev[last.parent].weight>>
             /\ New.child_crates = <<>>
             /\ New.operation_type = "Transferred"
        ELSE /\ last.result = "WeightMismatchOnTransfer"
             /\ store = prev

\* A transfer that succeeded, of a parent whose weight is none of the others
\* a caller could have declared.
C4_Witness ==
    /\ last.op = "transfer_ownership"
    /\ LastOk
    /\ New.operation_type = "Transferred"
    /\ New.weight = U32_MAX

-----------------------------------------------------------------------------
(* C5 *)

\* C5: a linking call signed by anyone but the target record's authority
\* fails with UnauthorizedUpdate and changes nothing; and whenever the
\* parent_crates or child_crates of an existing record change, the call was
\* signed by that record's authority.
C5_OnlyAuthorityRelinks ==
    /\ (last.op \in LinkOps /\ last.signer # Old.authority)
           => (last.result = "UnauthorizedUpdate" /\ store = prev)
    /\ \A a \in Addrs :
           (/\ prev[a] # NoRecord
            /\ \/ store[a].parent_crates # prev[a].parent_crates
               \/ store[a].child_crates # prev[a].child_crates)
               => last.signer = prev[a].authority

\* An update_child_parent by a stranger, rejected, on a record that another
\* linking call had changed before.
C5_Witness ==
    /\ last.op = "update_child_parent"
    /\ last.signer # Old.authority
    /\ last.result = "UnauthorizedUpdate"
    /\ Old.child_crates # <<>>

-----------------------------------------------------------------------------
(* C6 *)

\* C6 (as claimed): once two or more successful update_child_parent calls
\* have been made on a child with the same parent reference, the child's
\* parent_crates contains that reference exactly once.
C6_LinkedExactlyOnce ==
    \A e \in linked :
        e[4] >= 2 => Count(store[e[1]].parent_crates, e[2]) = 1

\* C6 (amended): update_child_parent never adds a reference that is already
\* present.  A successful call whose reference is present leaves the ledger
\* unchanged; one whose reference is absent appends it once, at the end.  So
\* after any number of successful calls with the same reference, whatever
\* was called in between, the reference occurs as often as it did before the
\* first of them, and once if it did not occur then.
C6_LinkedKeepsCount ==
    /\ \A e \in linked :
           Count(store[e[1]].parent_crates, e[2]) = Max(1, e[3])
    /\ (last.op = "update_child_parent" /\ LastOk) =>
           IF Contains(Old.parent_crates, last.keys[1])
           THEN store = prev
           ELSE New.parent_crates = Append(Old.parent_crates, last.keys[1])

\* The same reference linked twice to a child that did not have it: the
\* second call found it present.
C6_Witness ==
    /\ last.op = "update_child_parent"
    /\ LastOk
    /\ \E e \in linked :
           /\ e[1] = last.target /\ e[2] = last.keys[1]
           /\ e[3] = 0 /\ e[4] = 2
           /\ Count(New.parent_crates, e[2]) = 1

-----------------------------------------------------------------------------
(* C7 *)

\* C7 (as claimed): in every reachable state every record has at most
\* MAX_PARENTS parent_crates and at most MAX_CHILDREN child_crates.
C7_LineageListsBounded ==
    \A a \in Addrs :
        Exists(a) => /\ Len(store[a].parent_crates) <= MAX_PARENTS
                     /\ Len(store[a].child_crates) <= MAX_CHILDREN

-----------------------------------------------------------------------------
(* C8 *)

\* C8: a mix_crates call for a new account with an admissible number of parent keys, over
\* parent accounts whose weights sum to more than 2^32 - 1, fails with
\* WeightOverflow and changes nothing; and the weight of every Mixed record
\* is the mathematical sum of its parent_weights, never that sum modulo 2^32.
C8_MixOverflowFails ==
    /\ (/\ last.op = "mix_crates"
        /\ FreshTarget
        /\ Len(last.keys) >= 2
        /\ Len(last.keys) <= MAX_PARENTS
        /\ WereRecords(last.accounts)
        /\ ~FitsU32(SumSeq(WeightsThen(last.accounts))))
           => (last.result = "WeightOverflow" /\ store = prev)
    /\ \A a \in Addrs :
           (Exists(a) /\ store[a].operation_type = "Mixed")
               => store[a].weight = SumSeq(store[a].parent_weights)

\* A mix of two records of weights 2^32 - 1 and 2, rejected.
C8_Witness ==
    /\ last.op = "mix_crates"
    /\ last.result = "WeightOverflow"
    /\ Len(last.accounts) = 2
    /\ WeightsThen(last.accounts) = <<U32_MAX, U32(0, 2)>>

-----------------------------------------------------------------------------
(* C9 *)

\* C9: mix_crates for a new account with fewer than 2 parent keys fails with
\* MixRequiresMultipleParents and with more than MAX_PARENTS with
\* TooManyParents, whatever the parent accounts are (missing, or overflowing
\* in sum), and changes nothing; a record that mix_crates creates has between
\* 2 and MAX_PARENTS parent_crates.
C9_MixParentCount ==
    (last.op = "mix_crates" /\ FreshTarget) =>
        /\ Len(last.keys) < 2
               => (last.result = "MixRequiresMultipleParents" /\ store = prev)
        /\ Len(last.keys) > MAX_PARENTS
               => (last.result = "TooManyParents" /\ store = prev)
        /\ LastOk => /\ Old = NoRecord
                     /\ New.operation_type = "Mixed"
                     /\ Len(New.parent_crates) >= 2
                     /\ Len(New.parent_crates) <= MAX_PARENTS

\* One parent key, and a parent account that is no record: the count is
\* what the call fails on.
C9_Witness ==
    /\ last.op = "mix_crates"
    /\ Len(last.keys) = 1
    /\ ~WereRecords(last.accounts)
    /\ last.result = "MixRequiresMultipleParents"

-----------------------------------------------------------------------------
(* C10 *)

\* C10 (as claimed): split_crate for a new account reports the first failing precondition in
\* the order: fewer than 2 child keys, more than MAX_CHILDREN child keys,
\* child-key count differing from child-weight count, sum of child weights
\* differing from the parent's weight.
C10_SplitCheckOrder ==
    (last.op = "split_crate" /\ FreshTarget) =>
        IF Len(last.keys) < 2
        THEN last.result = "SplitRequiresMultipleChildren"
        ELSE IF Len(last.keys) > MAX_CHILDREN
        THEN last.result = "TooManyChildren"
        ELSE IF Len(last.keys) # Len(last.weights)
        THEN last.result = "ChildKeyWeightMismatch"
        ELSE IF SumSeq(last.weights) # prev[last.parent].weight
        THEN last.result = "SplitWeightMismatch"
        ELSE LastOk

-----------------------------------------------------------------------------
(* C11 *)

\* The fields of a record that no operation assigns after its creation.
WriteOnce(r) ==
    <<r.crate_id, r.weight, r.timestamp, r.hash, r.ipfs_cid, r.parent_weights,
      r.split_distribution, r.operation_type>>

\* C11: a call leaves crate_id, weight, timestamp, hash, ipfs_cid,
\* parent_weights, split_distribution and operation_type of every record
\* that existed before it as they were; the parent_crates of such a record
\* change only in an update_child_parent on it and its child_crates only in
\* an update_parent_children on it; and a create_crate, transfer_ownership,
\* mix_crates or split_crate on the address of an existing record fails and
\* leaves the record as it was.  Holding after every call, this holds over
\* any sequence of calls.
C11_WriteOnceFields ==
    /\ \A a \in Addrs :
           prev[a] # NoRecord =>
               /\ store[a] # NoRecord
               /\ WriteOnce(store[a]) = WriteOnce(prev[a])
               /\ store[a].parent_crates # prev[a].parent_crates
                      => (last.op = "update_child_parent" /\ last.target = a)
               /\ store[a].child_crates # prev[a].child_crates
                      => (last.op = "update_parent_children" /\ last.target = a)
    /\ (last.op \in {"create_crate", "transfer_ownership", "mix_crates", "split_crate"}
            /\ ~FreshTarget)
           => (last.result = "AccountAlreadyInUse" /\ store = prev)

\* A transformation called on the address of a record that a linking call
\* had changed before: refused, the record still as the linking call left it.
C11_Witness ==
    /\ last.op \in {"create_crate", "transfer_ownership", "mix_crates", "split_crate"}
    /\ last.result = "AccountAlreadyInUse"
    /\ Old.child_crates # <<>>
    /\ New = Old

-----------------------------------------------------------------------------
(* C12 *)

-----------------------------------------------------------------------------
(* C13 *)

\* C13 (as claimed): in every reachable state every record tagged Created has
\* no parent_crates and no parent_weights, also after linking calls on it.
C13_CreatedHasNoParents ==
    \A a \in Addrs :
        (Exists(a) /\ store[a].operation_type = "Created")
            => (store[a].parent_crates = <<>> /\ store[a].parent_weights = <<>>)

-----------------------------------------------------------------------------
(* C14 *)

\* C14 (as claimed): in every reachable state every record tagged Transferred
\* has exactly one parent_crates entry and exactly one parent_weights entry,
\* that entry is the weight of the record the parent_crates entry names, and
\* the record's own weight is that weight too.
C14_TransferredHasOneParent ==
    \A a \in Addrs :
        (Exists(a) /\ store[a].operation_type = "Transferred")
            => /\ Len(store[a].parent_crates) = 1
               /\ Len(store[a].parent_weights) = 1
               /\ Exists(store[a].parent_crates[1])
               /\ store[a].parent_weights[1] = store[store[a].parent_crates[1]].weight
               /\ store[a].weight = store[store[a].parent_crates[1]].weight

-----------------------------------------------------------------------------
(* C15 *)

Creators == {"create_crate", "transfer_ownership", "mix_crates", "split_crate"}

\* C15: a successful call changes the ledger at one address only, the one
\* of its target account.  A successful create_crate, transfer_ownership,
\* mix_crates or split_crate puts a record where none was and leaves every
\* record that existed, the parents it read among them, as it was; a
\* successful update_parent_children or update_child_parent leaves every
\* record but its target as it was.
C15_OneRecordWritten ==
    (last.op # "none" /\ LastOk) =>
        /\ \A a \in Addrs : a # last.target => store[a] = prev[a]
        /\ last.op \in Creators =>
               /\ Old = NoRecord /\ New # NoRecord
               /\ \A a \in Addrs : prev[a] # NoRecord => store[a] = prev[a]
        /\ last.op \in LinkOps => (Old # NoRecord /\ New # NoRecord)

\* A successful split_crate of a parent that lists children already: the
\* parent still lists the same children.
C15_Witness ==
    /\ last.op = "split_crate"
    /\ LastOk
    /\ prev[last.parent].child_crates # <<>>
    /\ store[last.parent] = prev[last.parent]
    /\ New.operation_type = "Split"

-----------------------------------------------------------------------------
(* C16 *)

\* C16 (as claimed): after a successful mix_crates whose parent keys all
\* name records, the stored parent_weights has one entry for each entry of
\* the stored parent_crates, and entry i is the weight of the record that
\* parent_crates[i] names.
C16_MixWeightsSnapshotInOrder ==
    (last.op = "mix_crates" /\ LastOk /\ WereRecords(New.parent_crates))
        => New.parent_weights = WeightsThen(New.parent_crates)

-----------------------------------------------------------------------------
(* C17 *)

\* C17: after a successful update_parent_children the target's child_crates
\* is the list of keys that was passed, whatever it held before, and the
\* record is otherwise as it was; so after two such calls on one record it
\* holds the list of the later call.
C17_ChildrenReplaced ==
    (last.op = "update_parent_children" /\ LastOk) =>
        /\ New.child_crates = last.keys
        /\ New = [Old EXCEPT !.child_crates = last.keys]

\* A second successful update_parent_children on a record, with a list that
\* leaves out a key of the first: the key is gone.
C17_Witness ==
    /\ last.op = "update_parent_children"
    /\ LastOk
    /\ \E k \in Keys : Contains(Old.child_crates, k) /\ ~Contains(last.keys, k)
    /\ New.child_crates = last.keys

-----------------------------------------------------------------------------
(* C18 *)

\* C18: a successful split_crate puts one record where none was, tagged
\* Split, with the parent as its only parent_crates entry, the parent's
\* weight as its only parent_weights entry, the whole list of child keys
\* passed as child_crates, the whole list of child weights passed as
\* split_distribution, and the weight the caller passed as weight; and a
\* split_crate for a new account whose lists pass the length checks and
\* whose child weights sum, within 32 bits, to the parent's weight succeeds
\* whatever weight the caller passed, one of the child weights or not.
C18_SplitRecordFields ==
    last.op = "split_crate" =>
        /\ LastOk =>
               /\ Old = NoRecord
               /\ New.operation_type = "Split"
               /\ New.parent_crates = <<last.parent>>
               /\ New.parent_weights = <<prev[last.parent].weight>>
               /\ New.child_crates = last.keys
               /\ New.split_distribution = last.weights
               /\ New.weight = last.weight
               /\ \A a \in Addrs : a # last.target => store[a] = prev[a]
        /\ (/\ FreshTarget
            /\ SplitLenCheck(last.keys, last.weights) = "Ok"
            /\ FitsU32(SumSeq(last.weights))
            /\ SumSeq(last.weights) = prev[last.parent].weight)
               => LastOk

\* A successful split_crate, of child weights that sum within 32 bits,
\* whose weight is none of the child weights.
C18_Witness ==
    /\ last.op = "split_crate"
    /\ LastOk
    /\ FitsU32(SumSeq(last.weights))
    /\ ~Contains(last.weights, last.weight)
    /\ New.weight = last.weight
    /\ New.split_distribution = last.weights

-----------------------------------------------------------------------------
(* C19 *)

\* s is an initial segment of t.
IsPrefix(s, t) == Len(s) <= Len(t) /\ \A i \in 1..Len(s) : s[i] = t[i]

\* Record c names p as a parent and p lists c as a child.
Bidirectional(p, c) ==
    /\ Exists(p) /\ Exists(c)
    /\ Contains(store[c].parent_crates, p)
    /\ Contains(store[p].child_crates, c)

\* C19: right after a successful transfer_ownership or split_crate the new
\* record names the parent in parent_crates, and right after a successful
\* mix_crates it names every parent key passed, while every record that
\* existed, the parent among them, has the child_crates it had; the
\* child_crates of an existing record change only in a successful
\* update_parent_children on it signed by its authority; no call takes an
\* entry out of a record's parent_crates; and after a successful
\* update_parent_children on P with a list that contains C, where C names P
\* as a parent, P lists C and C still names P.
C19_TwoPhaseLinking ==
    /\ (last.op \in {"transfer_ownership", "split_crate"} /\ LastOk) =>
           /\ Contains(New.parent_crates, last.parent)
           /\ store[last.parent].child_crates = prev[last.parent].child_crates
    /\ (last.op = "mix_crates" /\ LastOk) =>
           /\ \A i \in 1..Len(last.keys) : Contains(New.parent_crates, last.keys[i])
           /\ \A a \in Addrs :
                  prev[a] # NoRecord => store[a].child_crates = prev[a].child_crates
    /\ \A a \in Addrs :
           prev[a] # NoRecord =>
               /\ IsPrefix(prev[a].parent_crates, store[a].parent_crates)
               /\ store[a].child_crates # prev[a].child_crates =>
                      /\ last.op = "update_parent_children"
                      /\ LastOk
                      /\ last.target = a
                      /\ last.signer = prev[a].authority
    /\ (last.op = "update_parent_children" /\ LastOk) =>
           \A c \in Addrs :
               (/\ prev[c] # NoRecord
                /\ Contains(prev[c].parent_crates, last.target)
                /\ Contains(last.keys, c))
                   => Bidirectional(last.target, c)

\* A record made by a transformation from a parent that did not list it,
\* and then the parent's authority's update_parent_children with a list
\* that contains it: the edge is there in both directions.
C19_Witness ==
    /\ last.op = "update_parent_children"
    /\ LastOk
    /\ \E c \in Addrs :
           /\ c # last.target
           /\ Exists(c)
           /\ store[c].operation_type \in {"Transferred", "Mixed", "Split"}
           /\ ~Contains(Old.child_crates, c)
           /\ Bidirectional(last.target, c)

-----------------------------------------------------------------------------
(* C20 *)

\* C20: the authority of a record that a call created is the signer of that
\* call, and no call changes the authority of a record that existed before
\* it.  Whether a transfer_ownership, mix_crates or split_crate for a new
\* account succeeds is decided by its other arguments and the records it
\* reads, not by its signer, who need not be the authority of a parent.
\* Whether a linking call is authorized is decided by the target's
\* authority, which is the one it was created with.
C20_AuthorityFixed ==
    /\ (last.op \in Creators /\ LastOk) => New.authority = last.signer
    /\ \A a \in Addrs : prev[a] # NoRecord => store[a].authority = prev[a].authority
    /\ (/\ last.op = "transfer_ownership" /\ FreshTarget
        /\ last.weight = prev[last.parent].weight) => LastOk
    /\ (/\ last.op = "mix_crates" /\ FreshTarget
        /\ MixKeysCheck(last.keys) = "Ok"
        /\ WereRecords(last.accounts)
        /\ FitsU32(SumSeq(WeightsThen(last.accounts)))) => LastOk
    /\ (/\ last.op = "split_crate" /\ FreshTarget
        /\ SplitLenCheck(last.keys, last.weights) = "Ok"
        /\ FitsU32(SumSeq(last.weights))
        /\ SumSeq(last.weights) = prev[last.parent].weight) => LastOk
    /\ last.op \in LinkOps =>
           IF last.signer = Old.authority
           THEN last.result \in {"Ok", "AccountDidNotSerialize"}
           ELSE last.result = "UnauthorizedUpdate"

\* A successful transfer_ownership signed by someone who is not the
\* parent's authority: the new record is the signer's, the parent still its
\* authority's.
C20_Witness ==
    /\ last.op = "transfer_ownership"
    /\ LastOk
    /\ last.signer # prev[last.parent].authority
    /\ New.authority = last.signer
    /\ store[last.parent].authority = prev[last.parent].authority

====
